---------------------------- MODULE Spec2Model ----------------------------
(***************************************************************************)
(* Pose detection post-processing graph                                    *)
(* (mediapipe/tasks/cc/vision/pose_detector/pose_detector_graph.cc).       *)
(*                                                                         *)
(* The graph file fixes the calculators' options and the wiring of the     *)
(* streams between them; those are modelled from the source.  The         *)
(* calculators themselves (SsdAnchorsCalculator, TensorsToDetections-      *)
(* Calculator, ...) live in other files; each one is modelled as an       *)
(* operator that follows the written contract of the matching stage       *)
(* (AnchorTable, TensorDecoder, Suppressor, Projector, Limiter,            *)
(* RectDeriver, RectExpander).                                             *)
(*                                                                         *)
(* Numbers.  Floats are fixed-point integers: a normalized coordinate,     *)
(* a size or a score v is held as v * One.  Fractional options are         *)
(* <<numerator, denominator>> pairs.  Angles are whole degrees.            *)
(***************************************************************************)
EXTENDS Integers, Sequences, FiniteSets, TLC

(***************************************************************************)
(* Bounds of the model.                                                    *)
(***************************************************************************)
NumFrames == 2          \* frames in flight at once (SpecFrames)
MaxNumPoses == 2        \* largest num_poses option tried

Frames == 1..NumFrames

(***************************************************************************)
(* ConfigureSsdAnchorsCalculator                                           *)
(***************************************************************************)
num_layers == 5
min_scale == <<19, 128>>            \* 0.1484375
max_scale == <<3, 4>>               \* 0.75
input_size_height == 224
input_size_width == 224
anchor_offset_x == <<1, 2>>         \* 0.5
anchor_offset_y == <<1, 2>>         \* 0.5
\* variant: the second stride repeated instead of the third
strides_Repeated == <<8, 16, 16, 32, 32>>
strides == <<8, 16, 32, 32, 32>>
aspect_ratios == <<1>>              \* 1.0
fixed_anchor_size == TRUE

(***************************************************************************)
(* ConfigureTensorsToDetectionsCalculator                                  *)
(***************************************************************************)
num_classes == 1
num_boxes == 2254
num_coords == 12
box_coord_offset == 0
keypoint_coord_offset == 4
num_keypoints == 4
num_values_per_keypoint == 2
sigmoid_score == TRUE
score_clipping_thresh == 100
x_scale == 224
y_scale == 224
w_scale == 224
h_scale == 224
\* variant: the task's min_detection_confidence is not passed on
min_score_thresh_Unset(o) == 0
min_score_thresh(o) == o.min_detection_confidence

(***************************************************************************)
(* ConfigureNonMaxSuppressionCalculator                                    *)
(***************************************************************************)
min_suppression_threshold(o) == o.min_suppression_threshold
overlap_type == "INTERSECTION_OVER_UNION"
\* variant: the calculator's default algorithm, which keeps the seed as it is
algorithm_Default == "DEFAULT"
algorithm == "WEIGHTED"

(***************************************************************************)
(* ConfigureDetectionsToRectsCalculator                                    *)
(***************************************************************************)
rotation_vector_start_keypoint_index == 0
rotation_vector_end_keypoint_index == 2
rotation_vector_target_angle == 90
\* variant: the flag left at its default
output_zero_rect_for_empty_detections_Unset == FALSE
output_zero_rect_for_empty_detections == TRUE

(***************************************************************************)
(* ConfigureRectTransformationCalculator                                   *)
(***************************************************************************)
scale_x == <<26, 10>>               \* 2.6
scale_y == <<26, 10>>               \* 2.6
shift_y == <<-1, 2>>                \* -0.5
\* variant: the flag left at its default
square_long_Unset == FALSE
square_long == TRUE

(***************************************************************************)
(* Fixed point.  One is 1.0; it is a multiple of 2 * 224 (anchor centres   *)
(* of every layer are whole) and of 100 (0.2, 0.1, 0.52 are whole).        *)
(***************************************************************************)
One == 50 * input_size_width

Min(a, b) == IF a <= b THEN a ELSE b
Max(a, b) == IF a >= b THEN a ELSE b
CeilDiv(a, b) == (a + b - 1) \div b
\* v * (q[1] / q[2]) for a fraction q
MulFrac(v, q) == (v * q[1]) \div q[2]

(***************************************************************************)
(* AnchorTable: for each layer, for each grid cell of the layer's stride   *)
(* (rows outermost), for each aspect ratio, one anchor centred at the      *)
(* offset-adjusted cell position.                                          *)
(***************************************************************************)
FeatureMapHeight(layer) == CeilDiv(input_size_height, strides[layer])
FeatureMapWidth(layer) == CeilDiv(input_size_width, strides[layer])

\* min_scale + (max_scale - min_scale) * (layer - 1) / (num_layers - 1)
CalculateScale(layer) ==
    IF num_layers = 1
    THEN (One * (min_scale[1] * max_scale[2] + max_scale[1] * min_scale[2]))
             \div (2 * min_scale[2] * max_scale[2])
    ELSE MulFrac(One, min_scale)
         + ((MulFrac(One, max_scale) - MulFrac(One, min_scale)) * (layer - 1))
               \div (num_layers - 1)

LayerAnchorCount(layer) ==
    FeatureMapHeight(layer) * FeatureMapWidth(layer) * Len(aspect_ratios)

LayerAnchor(layer, k) ==
    LET cell == (k - 1) \div Len(aspect_ratios)
        y == cell \div FeatureMapWidth(layer)
        x == cell % FeatureMapWidth(layer)
        ratio == aspect_ratios[((k - 1) % Len(aspect_ratios)) + 1]
    IN  [x_center |-> ((x * anchor_offset_x[2] + anchor_offset_x[1]) * One)
                          \div (anchor_offset_x[2] * FeatureMapWidth(layer)),
         y_center |-> ((y * anchor_offset_y[2] + anchor_offset_y[1]) * One)
                          \div (anchor_offset_y[2] * FeatureMapHeight(layer)),
         width |-> IF fixed_anchor_size THEN One ELSE CalculateScale(layer) * ratio,
         height |-> IF fixed_anchor_size THEN One ELSE CalculateScale(layer) \div ratio]

LayerAnchors(layer) ==
    [k \in 1..LayerAnchorCount(layer) |-> LayerAnchor(layer, k)]

RECURSIVE AnchorsUpTo(_)
AnchorsUpTo(layer) ==
    IF layer = 0 THEN <<>> ELSE AnchorsUpTo(layer - 1) \o LayerAnchors(layer)

AnchorTable ==
    IF Len(strides) # num_layers THEN <<>> ELSE AnchorsUpTo(num_layers)


(***************************************************************************)
(* TensorDecoder.  A RawTensorOutput is held sparsely: tensors.scores and  *)
(* tensors.boxes are functions on the tensor rows that carry a candidate;  *)
(* every other row of the num_boxes rows is background (its activated      *)
(* score is below every threshold tried).                                  *)
(***************************************************************************)
\* round(1000 / (1 + e^-x)) for whole x
SigmoidPermille(x) ==
    CASE x <= -8 -> 0
      [] x = -7 -> 1
      [] x = -6 -> 2
      [] x = -5 -> 7
      [] x = -4 -> 18
      [] x = -3 -> 47
      [] x = -2 -> 119
      [] x = -1 -> 269
      [] x = 0 -> 500
      [] x = 1 -> 731
      [] x = 2 -> 881
      [] x = 3 -> 953
      [] x = 4 -> 982
      [] x = 5 -> 993
      [] x = 6 -> 998
      [] x = 7 -> 999
      [] x >= 8 -> 1000

Sigmoid(x) == (SigmoidPermille(x) * One) \div 1000

Clip(x, thresh) == Max(-thresh, Min(thresh, x))

\* the final score of a raw class score
ActivatedScore(raw) ==
    IF sigmoid_score THEN Sigmoid(Clip(raw, score_clipping_thresh)) ELSE raw * One

DecodeKeypoint(anchor, box_row, k) ==
    LET at == keypoint_coord_offset + (k - 1) * num_values_per_keypoint
    IN  [x |-> anchor.x_center + (box_row[at + 1] * One) \div x_scale,
         y |-> anchor.y_center + (box_row[at + 2] * One) \div y_scale]

\* row is the tensor row the detection was decoded from (history only)
DecodeRow(anchor, box_row, raw, row) ==
    [score |-> ActivatedScore(raw),
     box |-> [x_center |-> anchor.x_center
                               + (box_row[box_coord_offset + 1] * One) \div x_scale,
              y_center |-> anchor.y_center
                               + (box_row[box_coord_offset + 2] * One) \div y_scale,
              width |-> (anchor.width * box_row[box_coord_offset + 3]) \div w_scale,
              height |-> (anchor.height * box_row[box_coord_offset + 4]) \div h_scale],
     keypoints |-> [k \in 1..num_keypoints |-> DecodeKeypoint(anchor, box_row, k)],
     row |-> row]

SetMin(S) == CHOOSE m \in S : \A n \in S : m <= n

RECURSIVE DecodeRows(_, _, _, _)
DecodeRows(anchor_table, tensors, o, rows) ==
    IF rows = {} THEN <<>>
    ELSE LET i == SetMin(rows)
             d == DecodeRow(anchor_table[i], tensors.boxes[i], tensors.scores[i], i)
         IN  (IF d.score < min_score_thresh(o) THEN <<>> ELSE <<d>>)
             \o DecodeRows(anchor_table, tensors, o, rows \ {i})

TensorsToDetections(anchor_table, tensors, o) ==
    DecodeRows(anchor_table, tensors, o, DOMAIN tensors.scores)

(***************************************************************************)
(* Suppressor (non-max suppression).                                       *)
(***************************************************************************)
\* twice the overlap of [2c1 - w1, 2c1 + w1] and [2c2 - w2, 2c2 + w2], halved
Overlap2(c1, w1, c2, w2) ==
    Max(0, Min(2 * c1 + w1, 2 * c2 + w2) - Max(2 * c1 - w1, 2 * c2 - w2))

\* four times the intersection area of two axis-aligned boxes
Intersection4(a, b) ==
    Overlap2(a.x_center, a.width, b.x_center, b.width)
        * Overlap2(a.y_center, a.height, b.y_center, b.height)

Union4(a, b) == 4 * a.width * a.height + 4 * b.width * b.height - Intersection4(a, b)

\* IoU(a, b) >= thresh, thresh a fraction
OverlapsAtLeast(a, b, thresh) ==
    /\ Union4(a, b) > 0
    /\ Intersection4(a, b) * thresh[2] >= thresh[1] * Union4(a, b)

\* the first position holding the highest score
ArgMaxScore(dets) ==
    CHOOSE i \in 1..Len(dets) :
        /\ \A j \in 1..Len(dets) : dets[j].score <= dets[i].score
        /\ \A j \in 1..(i - 1) : dets[j].score < dets[i].score

RemoveAt(s, i) == SubSeq(s, 1, i - 1) \o SubSeq(s, i + 1, Len(s))

\* descending score, ties in original order
RECURSIVE SortByScore(_)
SortByScore(dets) ==
    IF dets = <<>> THEN <<>>
    ELSE LET i == ArgMaxScore(dets)
         IN  <<dets[i]>> \o SortByScore(RemoveAt(dets, i))

RECURSIVE Pick(_, _, _, _)
\* the members of s that do (want = TRUE) or do not overlap the seed
Pick(s, seed, thresh, want) ==
    IF s = <<>> THEN <<>>
    ELSE (IF OverlapsAtLeast(seed.box, Head(s).box, thresh) = want
          THEN <<Head(s)>> ELSE <<>>)
         \o Pick(Tail(s), seed, thresh, want)

\* the clusters in the order they are formed; each cluster's seed is first
RECURSIVE Clusters(_, _)
Clusters(sorted, thresh) ==
    IF sorted = <<>> THEN <<>>
    ELSE LET seed == Head(sorted)
         IN  <<(<<seed>> \o Pick(Tail(sorted), seed, thresh, TRUE))>>
             \o Clusters(Pick(Tail(sorted), seed, thresh, FALSE), thresh)

RECURSIVE SumScores(_)
SumScores(cluster) ==
    IF cluster = <<>> THEN 0 ELSE Head(cluster).score + SumScores(Tail(cluster))

RECURSIVE WeightedSum(_, _)
\* sum over the cluster of score * vals[member]
WeightedSum(cluster, vals) ==
    IF cluster = <<>> THEN 0
    ELSE Head(cluster).score * Head(vals) + WeightedSum(Tail(cluster), Tail(vals))

WeightedAverage(cluster, vals) ==
    WeightedSum(cluster, vals) \div SumScores(cluster)

\* the detection a cluster yields
MergeCluster(cluster) ==
    LET seed == Head(cluster)
        members == 1..Len(cluster)
    IN  IF algorithm = "WEIGHTED" /\ SumScores(cluster) > 0
        THEN [score |-> seed.score,
              box |-> [x_center |-> WeightedAverage(cluster,
                                        [j \in members |-> cluster[j].box.x_center]),
                       y_center |-> WeightedAverage(cluster,
                                        [j \in members |-> cluster[j].box.y_center]),
                       width |-> WeightedAverage(cluster,
                                        [j \in members |-> cluster[j].box.width]),
                       height |-> WeightedAverage(cluster,
                                        [j \in members |-> cluster[j].box.height])],
              keypoints |-> [k \in 1..Len(seed.keypoints) |->
                               [x |-> WeightedAverage(cluster,
                                          [j \in members |-> cluster[j].keypoints[k].x]),
                                y |-> WeightedAverage(cluster,
                                          [j \in members |-> cluster[j].keypoints[k].y])]],
              row |-> seed.row]
        ELSE seed

NonMaxSuppression(dets, o) ==
    LET clusters == Clusters(SortByScore(dets), min_suppression_threshold(o))
    IN  [i \in 1..Len(clusters) |-> MergeCluster(clusters[i])]

(***************************************************************************)
(* Projector.  A TransformMatrix is the affine part of the 4x4 row-major   *)
(* matrix: x' = m00 x + m01 y + m03, y' = m10 x + m11 y + m13, with whole  *)
(* m00..m11 and the translation in fixed point.                            *)
(***************************************************************************)
ProjectPoint(p, m) ==
    [x |-> m.m00 * p.x + m.m01 * p.y + m.m03,
     y |-> m.m10 * p.x + m.m11 * p.y + m.m13]

\* the axis-aligned bounding box of the four projected corners
ProjectBox(box, m) ==
    LET corners2 == {[x |-> 2 * box.x_center + sx * box.width,
                      y |-> 2 * box.y_center + sy * box.height] :
                         sx \in {-1, 1}, sy \in {-1, 1}}
        \* projected corners, coordinates doubled
        xs == {m.m00 * c.x + m.m01 * c.y + 2 * m.m03 : c \in corners2}
        ys == {m.m10 * c.x + m.m11 * c.y + 2 * m.m13 : c \in corners2}
        lo(S) == CHOOSE v \in S : \A u \in S : v <= u
        hi(S) == CHOOSE v \in S : \A u \in S : v >= u
    IN  [x_center |-> (lo(xs) + hi(xs)) \div 4,
         y_center |-> (lo(ys) + hi(ys)) \div 4,
         width |-> (hi(xs) - lo(xs)) \div 2,
         height |-> (hi(ys) - lo(ys)) \div 2]

ProjectDetection(d, m) ==
    [score |-> d.score,
     box |-> ProjectBox(d.box, m),
     keypoints |-> [k \in 1..Len(d.keypoints) |-> ProjectPoint(d.keypoints[k], m)],
     row |-> d.row]

DetectionProjection(dets, m) ==
    [i \in 1..Len(dets) |-> ProjectDetection(dets[i], m)]

(***************************************************************************)
(* Limiter.                                                                *)
(***************************************************************************)
ClipVectorSize(vec, max_vec_size) ==
    IF Len(vec) > max_vec_size THEN SubSeq(vec, 1, max_vec_size) ELSE vec

(***************************************************************************)
(* RectDeriver.                                                            *)
(***************************************************************************)
ZeroRect ==
    [x_center |-> 0, y_center |-> 0, width |-> 0, height |-> 0, rotation |-> 0]

\* atan2 in degrees; the keypoint vectors of the model lie along an axis
Atan2Degrees(dy, dx) ==
    CASE dx = 0 /\ dy = 0 -> 0
      [] dy = 0 /\ dx > 0 -> 0
      [] dx = 0 /\ dy > 0 -> 90
      [] dy = 0 /\ dx < 0 -> 180
      [] dx = 0 /\ dy < 0 -> -90

\* into [-180, 180)
NormalizeDegrees(a) == ((a + 180) % 360) - 180

ComputeRotation(d) ==
    LET start == d.keypoints[rotation_vector_start_keypoint_index + 1]
        end == d.keypoints[rotation_vector_end_keypoint_index + 1]
    IN  NormalizeDegrees(rotation_vector_target_angle
                             - Atan2Degrees(end.y - start.y, end.x - start.x))

DetectionToRect(d, size) ==
    [x_center |-> d.box.x_center,
     y_center |-> d.box.y_center,
     width |-> d.box.width,
     height |-> d.box.height,
     rotation |-> ComputeRotation(d)]

DetectionsToRects(dets, size) ==
    IF dets = <<>>
    THEN IF output_zero_rect_for_empty_detections THEN <<ZeroRect>> ELSE <<>>
    ELSE [i \in 1..Len(dets) |-> DetectionToRect(dets[i], size)]

(***************************************************************************)
(* RectExpander: scale, shift along the rect's own y axis, square.         *)
(***************************************************************************)
SinDegrees(r) ==
    CASE r % 360 = 0 -> 0
      [] r % 360 = 90 -> 1
      [] r % 360 = 180 -> 0
      [] r % 360 = 270 -> -1

CosDegrees(r) == SinDegrees(r + 90)

TransformRect(rect, size) ==
    LET width == MulFrac(rect.width, scale_x)
        height == MulFrac(rect.height, scale_y)
        shift == MulFrac(height, shift_y)
        long_side == Max(width, height)
    IN  [x_center |-> rect.x_center - shift * SinDegrees(rect.rotation),
         y_center |-> rect.y_center + shift * CosDegrees(rect.rotation),
         width |-> IF square_long THEN long_side ELSE width,
         height |-> IF square_long THEN long_side ELSE height,
         rotation |-> rect.rotation]

RectTransformation(rects, size) ==
    [i \in 1..Len(rects) |-> TransformRect(rects[i], size)]

(***************************************************************************)
(* Pixel-space conversion of the detections (DETECTIONS output).           *)
(***************************************************************************)
ToPixelDetection(d, size) ==
    [score |-> d.score,
     box |-> [x_center |-> (d.box.x_center * size.width) \div One,
              y_center |-> (d.box.y_center * size.height) \div One,
              width |-> (d.box.width * size.width) \div One,
              height |-> (d.box.height * size.height) \div One],
     keypoints |-> [k \in 1..Len(d.keypoints) |->
                      [x |-> (d.keypoints[k].x * size.width) \div One,
                       y |-> (d.keypoints[k].y * size.height) \div One]],
     row |-> d.row]

DetectionTransformation(dets, size) ==
    [i \in 1..Len(dets) |-> ToPixelDetection(dets[i], size)]

(***************************************************************************)
(* Inputs tried.                                                           *)
(***************************************************************************)
\* tensor rows that carry a candidate: two neighbouring cells of layer 1,
\* the last cell of its first grid row, and the last anchor generated
RowIds == {1, 2, FeatureMapWidth(1), Len(AnchorTable)}
RawScores == {-1, 0, 2}
\* a box-regressor row: x, y, w, h, then num_keypoints (x, y) pairs
BoxRows == {<<0, 0, 40, 20, 0, 0, 0, -10, 0, -20, 0, 10>>}

Tensors ==
    {[scores |-> sc, boxes |-> [i \in RowIds |-> b]] :
        sc \in [RowIds -> RawScores], b \in BoxRows}

IdentityMatrix ==
    [m00 |-> 1, m01 |-> 0, m03 |-> 0, m10 |-> 0, m11 |-> 1, m13 |-> 0]
\* the identity, a translation by 0.1 along x, and a quarter turn about the
\* image centre (x' = 1 - y, y' = x)
Matrices ==
    {IdentityMatrix,
     [m00 |-> 1, m01 |-> 0, m03 |-> One \div 10, m10 |-> 0, m11 |-> 1, m13 |-> 0],
     [m00 |-> 0, m01 |-> -1, m03 |-> One, m10 |-> 1, m11 |-> 0, m13 |-> 0]}

ImageSizes == {[width |-> 640, height |-> 480], [width |-> 480, height |-> 480]}

FrameInputs ==
    {[tensors |-> t, matrix |-> m, image_size |-> sz] :
        t \in Tensors, m \in Matrices, sz \in ImageSizes}

\* the frames tried when several are in flight
ConcurrentTensors ==
    {t \in Tensors : \/ \A i \in RowIds : t.scores[i] = -1
                     \/ \A i \in RowIds : t.scores[i] = 2
                     \/ \A i \in RowIds : t.scores[i] = (IF i = 1 THEN 0 ELSE 2)}
ConcurrentInputs ==
    {in \in FrameInputs : /\ in.tensors \in ConcurrentTensors
                          /\ in.image_size.width = 640
                          /\ in.matrix.m03 = One \div 10}

\* PoseDetectorGraphOptions
NumPosesOptions ==
    {[has_num_poses |-> FALSE, num_poses |-> 0]}
        \cup {[has_num_poses |-> TRUE, num_poses |-> n] : n \in 1..MaxNumPoses}
MinDetectionConfidences == {One \div 2, (4 * One) \div 5}
MinSuppressionThresholds == {<<3, 10>>}
GraphOptions ==
    {[has_num_poses |-> np.has_num_poses, num_poses |-> np.num_poses,
      min_detection_confidence |-> c, min_suppression_threshold |-> t] :
        np \in NumPosesOptions, c \in MinDetectionConfidences,
        t \in MinSuppressionThresholds}

(***************************************************************************)
(* State.  There is one slot per frame in flight; `fired[f]` is the set of *)
(* nodes that have emitted their packet for the frame in slot f, and each  *)
(* stream variable holds, per slot, the packet on that stream.            *)
(***************************************************************************)
VARIABLES
    subgraph_options,        \* PoseDetectorGraphOptions of the graph
    anchors,                 \* side packet of SsdAnchorsCalculator (<<>>: not yet out)
    fired,
    model_output_tensors,    \* inference TENSORS
    matrix,                  \* preprocessing MATRIX
    image_size,              \* preprocessing IMAGE_SIZE
    detections,              \* TensorsToDetectionsCalculator DETECTIONS
    nms_detections,          \* NonMaxSuppressionCalculator output
    detection_projection_out,    \* DetectionProjectionCalculator DETECTIONS
    clip_detection_vector_size_out,  \* ClipDetectionVectorSizeCalculator output
    pose_rects,              \* DetectionsToRectsCalculator NORM_RECTS
    expanded_pose_rects,     \* RectTransformationCalculator output
    pose_pixel_detections    \* DetectionTransformationCalculator PIXEL_DETECTIONS

streams ==
    <<model_output_tensors, matrix, image_size, detections, nms_detections,
      detection_projection_out, clip_detection_vector_size_out, pose_rects,
      expanded_pose_rects, pose_pixel_detections>>
vars == <<subgraph_options, anchors, fired, streams>>

NoTensors == [scores |-> <<>>, boxes |-> <<>>]
NoImageSize == [width |-> 0, height |-> 0]

(***************************************************************************)
(* Wiring of BuildPoseDetectionSubgraph.                                   *)
(***************************************************************************)
has_num_poses == subgraph_options.has_num_poses
\* variant: off by one
max_vec_size_OffByOne == subgraph_options.num_poses + 1
max_vec_size == subgraph_options.num_poses

tensors_to_detections_TENSORS(f) == model_output_tensors[f]
tensors_to_detections_ANCHORS == anchors
non_maximum_suppression_In(f) == detections[f]
\* variant: the projection fed from the decoder, bypassing suppression
detection_projection_DETECTIONS_Unsuppressed(f) == detections[f]
detection_projection_DETECTIONS(f) == nms_detections[f]
detection_projection_PROJECTION_MATRIX(f) == matrix[f]
clip_detection_vector_size_In(f) == detection_projection_out[f]
\* the Source `pose_detections` after the optional clip node
pose_detections(f) ==
    IF has_num_poses THEN clip_detection_vector_size_out[f]
    ELSE detection_projection_out[f]
detections_to_rects_DETECTIONS(f) == pose_detections(f)
detections_to_rects_IMAGE_SIZE(f) == image_size[f]
\* variant: rects of the unclipped detections
rect_transformation_NORM_RECTS_Unclipped(f) ==
    DetectionsToRects(detection_projection_out[f], image_size[f])
rect_transformation_NORM_RECTS(f) == pose_rects[f]
rect_transformation_IMAGE_SIZE(f) == image_size[f]
detection_transformation_DETECTIONS(f) == detection_projection_out[f]
detection_transformation_IMAGE_SIZE(f) == image_size[f]

\* the node that feeds the Source `pose_detections`
PoseDetectionsNode ==
    IF has_num_poses THEN "clip_detection_vector_size" ELSE "detection_projection"

OutputNodes ==
    {"detection_transformation", "detections_to_rects", "rect_transformation"}

(***************************************************************************)
(* Initial state: the graph is configured, nothing has run.                *)
(***************************************************************************)
InitStreams ==
    /\ anchors = <<>>
    /\ fired = [f \in Frames |-> {}]
    /\ model_output_tensors = [f \in Frames |-> NoTensors]
    /\ matrix = [f \in Frames |-> IdentityMatrix]
    /\ image_size = [f \in Frames |-> NoImageSize]
    /\ detections = [f \in Frames |-> <<>>]
    /\ nms_detections = [f \in Frames |-> <<>>]
    /\ detection_projection_out = [f \in Frames |-> <<>>]
    /\ clip_detection_vector_size_out = [f \in Frames |-> <<>>]
    /\ pose_rects = [f \in Frames |-> <<>>]
    /\ expanded_pose_rects = [f \in Frames |-> <<>>]
    /\ pose_pixel_detections = [f \in Frames |-> <<>>]

Init ==
    /\ subgraph_options \in GraphOptions
    /\ InitStreams

(***************************************************************************)
(* Nodes.                                                                  *)
(***************************************************************************)
Fire(f, node) == fired' = [fired EXCEPT ![f] = @ \cup {node}]

\* SsdAnchorsCalculator: emits the anchors side packet once, when the graph starts
SsdAnchors ==
    /\ anchors = <<>>
    /\ anchors' = AnchorTable
    /\ UNCHANGED <<subgraph_options, fired, streams>>

\* ImagePreprocessingGraph and inference: the frame's tensors, matrix and size
Inference(f, inputs) ==
    /\ fired[f] = {}
    /\ \E in \in inputs :
          /\ model_output_tensors' = [model_output_tensors EXCEPT ![f] = in.tensors]
          /\ matrix' = [matrix EXCEPT ![f] = in.matrix]
          /\ image_size' = [image_size EXCEPT ![f] = in.image_size]
    /\ Fire(f, "inference")
    /\ UNCHANGED <<subgraph_options, anchors, detections, nms_detections,
                   detection_projection_out, clip_detection_vector_size_out,
                   pose_rects, expanded_pose_rects, pose_pixel_detections>>

\* variant: the anchors wired as a stream packet, consumed by the node
TensorsToDetectionsNode_ConsumesAnchors(f) ==
    /\ anchors # <<>>
    /\ "inference" \in fired[f]
    /\ "tensors_to_detections" \notin fired[f]
    /\ detections' = [detections EXCEPT ![f] =
           TensorsToDetections(tensors_to_detections_ANCHORS,
                               tensors_to_detections_TENSORS(f), subgraph_options)]
    /\ Fire(f, "tensors_to_detections")
    /\ anchors' = <<>>
    /\ UNCHANGED <<subgraph_options, model_output_tensors, matrix,
                   image_size, nms_detections, detection_projection_out,
                   clip_detection_vector_size_out, pose_rects,
                   expanded_pose_rects, pose_pixel_detections>>

TensorsToDetectionsNode(f) ==
    /\ anchors # <<>>
    /\ "inference" \in fired[f]
    /\ "tensors_to_detections" \notin fired[f]
    /\ detections' = [detections EXCEPT ![f] =
           TensorsToDetections(tensors_to_detections_ANCHORS,
                               tensors_to_detections_TENSORS(f), subgraph_options)]
    /\ Fire(f, "tensors_to_detections")
    /\ UNCHANGED <<subgraph_options, anchors, model_output_tensors, matrix,
                   image_size, nms_detections, detection_projection_out,
                   clip_detection_vector_size_out, pose_rects,
                   expanded_pose_rects, pose_pixel_detections>>

NonMaxSuppressionNode(f) ==
    /\ "tensors_to_detections" \in fired[f]
    /\ "non_maximum_suppression" \notin fired[f]
    /\ nms_detections' = [nms_detections EXCEPT ![f] =
           NonMaxSuppression(non_maximum_suppression_In(f), subgraph_options)]
    /\ Fire(f, "non_maximum_suppression")
    /\ UNCHANGED <<subgraph_options, anchors, model_output_tensors, matrix,
                   image_size, detections, detection_projection_out,
                   clip_detection_vector_size_out, pose_rects,
                   expanded_pose_rects, pose_pixel_detections>>

DetectionProjectionNode(f) ==
    /\ "non_maximum_suppression" \in fired[f]
    /\ "detection_projection" \notin fired[f]
    /\ detection_projection_out' = [detection_projection_out EXCEPT ![f] =
           DetectionProjection(detection_projection_DETECTIONS(f),
                               detection_projection_PROJECTION_MATRIX(f))]
    /\ Fire(f, "detection_projection")
    /\ UNCHANGED <<subgraph_options, anchors, model_output_tensors, matrix,
                   image_size, detections, nms_detections,
                   clip_detection_vector_size_out, pose_rects,
                   expanded_pose_rects, pose_pixel_detections>>

\* the node exists only when num_poses is set
ClipDetectionVectorSizeNode(f) ==
    /\ has_num_poses
    /\ "detection_projection" \in fired[f]
    /\ "clip_detection_vector_size" \notin fired[f]
    /\ clip_detection_vector_size_out' = [clip_detection_vector_size_out EXCEPT ![f] =
           ClipVectorSize(clip_detection_vector_size_In(f), max_vec_size)]
    /\ Fire(f, "clip_detection_vector_size")
    /\ UNCHANGED <<subgraph_options, anchors, model_output_tensors, matrix,
                   image_size, detections, nms_detections,
                   detection_projection_out, pose_rects, expanded_pose_rects,
                   pose_pixel_detections>>

DetectionsToRectsNode(f) ==
    /\ PoseDetectionsNode \in fired[f]
    /\ "detections_to_rects" \notin fired[f]
    /\ pose_rects' = [pose_rects EXCEPT ![f] =
           DetectionsToRects(detections_to_rects_DETECTIONS(f),
                             detections_to_rects_IMAGE_SIZE(f))]
    /\ Fire(f, "detections_to_rects")
    /\ UNCHANGED <<subgraph_options, anchors, model_output_tensors, matrix,
                   image_size, detections, nms_detections,
                   detection_projection_out, clip_detection_vector_size_out,
                   expanded_pose_rects, pose_pixel_detections>>

RectTransformationNode(f) ==
    /\ "detections_to_rects" \in fired[f]
    /\ "rect_transformation" \notin fired[f]
    /\ expanded_pose_rects' = [expanded_pose_rects EXCEPT ![f] =
           RectTransformation(rect_transformation_NORM_RECTS(f),
                              rect_transformation_IMAGE_SIZE(f))]
    /\ Fire(f, "rect_transformation")
    /\ UNCHANGED <<subgraph_options, anchors, model_output_tensors, matrix,
                   image_size, detections, nms_detections,
                   detection_projection_out, clip_detection_vector_size_out,
                   pose_rects, pose_pixel_detections>>

DetectionTransformationNode(f) ==
    /\ "detection_projection" \in fired[f]
    /\ "detection_transformation" \notin fired[f]
    /\ pose_pixel_detections' = [pose_pixel_detections EXCEPT ![f] =
           DetectionTransformation(detection_transformation_DETECTIONS(f),
                                   detection_transformation_IMAGE_SIZE(f))]
    /\ Fire(f, "detection_transformation")
    /\ UNCHANGED <<subgraph_options, anchors, model_output_tensors, matrix,
                   image_size, detections, nms_detections,
                   detection_projection_out, clip_detection_vector_size_out,
                   pose_rects, expanded_pose_rects>>

\* the graph's outputs for the frame are taken; the slot is free for the next frame
Deliver(f) ==
    /\ OutputNodes \subseteq fired[f]
    /\ fired' = [fired EXCEPT ![f] = {}]
    /\ model_output_tensors' = [model_output_tensors EXCEPT ![f] = NoTensors]
    /\ matrix' = [matrix EXCEPT ![f] = IdentityMatrix]
    /\ image_size' = [image_size EXCEPT ![f] = NoImageSize]
    /\ detections' = [detections EXCEPT ![f] = <<>>]
    /\ nms_detections' = [nms_detections EXCEPT ![f] = <<>>]
    /\ detection_projection_out' = [detection_projection_out EXCEPT ![f] = <<>>]
    /\ clip_detection_vector_size_out' =
           [clip_detection_vector_size_out EXCEPT ![f] = <<>>]
    /\ pose_rects' = [pose_rects EXCEPT ![f] = <<>>]
    /\ expanded_pose_rects' = [expanded_pose_rects EXCEPT ![f] = <<>>]
    /\ pose_pixel_detections' = [pose_pixel_detections EXCEPT ![f] = <<>>]
    /\ UNCHANGED <<subgraph_options, anchors>>

(***************************************************************************)
(* Spec: frames go through the graph one at a time (slot 1).               *)
(***************************************************************************)
Next ==
    \/ SsdAnchors
    \/ Inference(1, FrameInputs)
    \/ TensorsToDetectionsNode(1)
    \/ NonMaxSuppressionNode(1)
    \/ DetectionProjectionNode(1)
    \/ ClipDetectionVectorSizeNode(1)
    \/ DetectionsToRectsNode(1)
    \/ RectTransformationNode(1)
    \/ DetectionTransformationNode(1)
    \/ Deliver(1)

Spec == Init /\ [][Next]_vars

(***************************************************************************)
(* SpecFrames: NumFrames frames in flight, their nodes interleaved freely. *)
(***************************************************************************)
InitFrames ==
    /\ subgraph_options \in
           {o \in GraphOptions : /\ o.min_detection_confidence = One \div 2
                                 /\ o.num_poses \in {0, 1}}
    /\ InitStreams

NextFrames ==
    \/ SsdAnchors
    \/ \E f \in Frames : Inference(f, ConcurrentInputs)
    \/ \E f \in Frames : TensorsToDetectionsNode(f)
    \/ \E f \in Frames : NonMaxSuppressionNode(f)
    \/ \E f \in Frames : DetectionProjectionNode(f)
    \/ \E f \in Frames : ClipDetectionVectorSizeNode(f)
    \/ \E f \in Frames : DetectionsToRectsNode(f)
    \/ \E f \in Frames : RectTransformationNode(f)
    \/ \E f \in Frames : DetectionTransformationNode(f)
    \/ \E f \in Frames : Deliver(f)

SpecFrames == InitFrames /\ [][NextFrames]_vars

(***************************************************************************)
(* SpecRect: RectTransformationCalculator on its own.  The NORM_RECTS      *)
(* stream of slot 1 holds one rect drawn from RectInputs.                  *)
(***************************************************************************)
RectSides == {0, One \div 10, One \div 5, One \div 2}
RectInputs ==
    {[x_center |-> One \div 2, y_center |-> One \div 2, width |-> w, height |-> h,
      rotation |-> r] : w \in RectSides, h \in RectSides, r \in {-180, -90, 0, 90}}

InitRect ==
    /\ subgraph_options \in
           {o \in GraphOptions : /\ o.min_detection_confidence = One \div 2
                                 /\ ~o.has_num_poses}
    /\ anchors = AnchorTable
    /\ fired = [f \in Frames |->
                  IF f = 1
                  THEN {"inference", "tensors_to_detections",
                        "non_maximum_suppression", "detection_projection",
                        "detection_transformation", "detections_to_rects"}
                  ELSE {}]
    /\ model_output_tensors = [f \in Frames |-> NoTensors]
    /\ matrix = [f \in Frames |-> IdentityMatrix]
    /\ \E sz \in ImageSizes :
          image_size = [f \in Frames |-> IF f = 1 THEN sz ELSE NoImageSize]
    /\ detections = [f \in Frames |-> <<>>]
    /\ nms_detections = [f \in Frames |-> <<>>]
    /\ detection_projection_out = [f \in Frames |-> <<>>]
    /\ clip_detection_vector_size_out = [f \in Frames |-> <<>>]
    /\ \E r \in RectInputs :
          pose_rects = [f \in Frames |-> IF f = 1 THEN <<r>> ELSE <<>>]
    /\ expanded_pose_rects = [f \in Frames |-> <<>>]
    /\ pose_pixel_detections = [f \in Frames |-> <<>>]

NextRect == RectTransformationNode(1)

SpecRect == InitRect /\ [][NextRect]_vars

(***************************************************************************)
(* Properties.                                                             *)
(***************************************************************************)
Done(f, node) == node \in fired[f]

\* C1: when num_poses is set, the DETECTIONS output (the pixel-space
\* detections) of every frame holds at most num_poses detections.
C1_DetectionsAtMostNumPoses ==
    \A f \in Frames :
        (has_num_poses /\ Done(f, "detection_transformation"))
            => Len(pose_pixel_detections[f]) <= subgraph_options.num_poses

C3_EmptyGivesOneZeroRect ==
    \A f \in Frames :
        Done(f, "detections_to_rects") =>
            /\ Len(pose_rects[f]) >= 1
            /\ detections[f] = <<>> =>
                   /\ nms_detections[f] = <<>>
                   /\ detection_projection_out[f] = <<>>
                   /\ pose_detections(f) = <<>>
            /\ pose_detections(f) = <<>> =>
                   pose_rects[f] = <<[x_center |-> 0, y_center |-> 0, width |-> 0,
                                      height |-> 0, rotation |-> 0]>>

C3_Witness ==
    \E f \in Frames :
        /\ Done(f, "detections_to_rects")
        /\ DOMAIN model_output_tensors[f].scores # {}
        /\ detections[f] = <<>>
        /\ pose_detections(f) = <<>>
        /\ Len(pose_rects[f]) = 1

\* C4: the Limiter's output is the first num_poses entries of its input, in
\* order, when num_poses is set and the input is longer; otherwise the input.
C4_LimiterTruncates ==
    \A f \in Frames :
        Done(f, PoseDetectionsNode) =>
            LET S == detection_projection_out[f]
                out == pose_detections(f)
                n == subgraph_options.num_poses
            IN  IF subgraph_options.has_num_poses /\ Len(S) > n
                THEN /\ Len(out) = n
                     /\ \A i \in 1..n : out[i] = S[i]
                ELSE out = S

C4_Witness ==
    \E f \in Frames :
        /\ subgraph_options.has_num_poses
        /\ Done(f, "clip_detection_vector_size")
        /\ Len(detection_projection_out[f]) > subgraph_options.num_poses
        /\ Len(clip_detection_vector_size_out[f]) = subgraph_options.num_poses
        /\ detection_projection_out[f][1] # detection_projection_out[f][2]

\* v is the score-weighted average of vals over the cluster (rounded down)
IsWeightedAverage(v, cluster, vals) ==
    LET total == SumScores(cluster)
        sum == WeightedSum(cluster, vals)
    IN  total * v <= sum /\ sum < total * (v + 1)

\* C5: the Suppressor yields one detection per cluster in the order the
\* clusters were formed, with non-increasing scores; each carries its seed's
\* input score (the highest of the cluster) unchanged, and a box and
\* keypoints that are the score-weighted averages over the cluster.
C5_Suppressor ==
    \A f \in Frames :
        Done(f, "non_maximum_suppression") =>
            LET in == detections[f]
                out == nms_detections[f]
                cl == Clusters(SortByScore(in), subgraph_options.min_suppression_threshold)
            IN  /\ Len(out) = Len(cl)
                /\ \A i \in 1..(Len(out) - 1) : out[i].score >= out[i + 1].score
                /\ \A i \in 1..Len(out) :
                      LET c == cl[i]
                          m == 1..Len(c)
                      IN  /\ out[i].row = c[1].row
                          /\ \E k \in 1..Len(in) :
                                in[k].row = out[i].row /\ in[k].score = out[i].score
                          /\ \A j \in m : c[j].score <= out[i].score
                          /\ IsWeightedAverage(out[i].box.x_center, c,
                                               [j \in m |-> c[j].box.x_center])
                          /\ IsWeightedAverage(out[i].box.y_center, c,
                                               [j \in m |-> c[j].box.y_center])
                          /\ IsWeightedAverage(out[i].box.width, c,
                                               [j \in m |-> c[j].box.width])
                          /\ IsWeightedAverage(out[i].box.height, c,
                                               [j \in m |-> c[j].box.height])
                          /\ \A k \in 1..Len(out[i].keypoints) :
                                /\ IsWeightedAverage(out[i].keypoints[k].x, c,
                                                     [j \in m |-> c[j].keypoints[k].x])
                                /\ IsWeightedAverage(out[i].keypoints[k].y, c,
                                                     [j \in m |-> c[j].keypoints[k].y])

C5_Witness ==
    \E f \in Frames :
        /\ Done(f, "non_maximum_suppression")
        /\ Len(detections[f]) = 3
        /\ Len(nms_detections[f]) = 2
        /\ \E i, j \in 1..3 :
              /\ detections[f][i].score > detections[f][j].score
              /\ detections[f][i].row = nms_detections[f][1].row
              /\ nms_detections[f][1].box # detections[f][i].box
              /\ nms_detections[f][1].score = detections[f][i].score

\* C6: no detection of the TensorDecoder's output has a score below
\* min_detection_confidence, and the output follows increasing tensor row
\* order, whatever the scores.
C6_DecoderFilters ==
    \A f \in Frames :
        Done(f, "tensors_to_detections") =>
            LET out == detections[f]
            IN  /\ \A i \in 1..Len(out) :
                      /\ out[i].score >= subgraph_options.min_detection_confidence
                      /\ out[i].row \in DOMAIN model_output_tensors[f].scores
                /\ \A i \in 1..(Len(out) - 1) : out[i].row < out[i + 1].row

C6_Witness ==
    \E f \in Frames :
        /\ Done(f, "tensors_to_detections")
        /\ Len(detections[f]) = 2
        /\ detections[f][1].score < detections[f][2].score
        /\ detections[f][1].score = subgraph_options.min_detection_confidence
        /\ \E i \in DOMAIN model_output_tensors[f].scores :
              model_output_tensors[f].scores[i] = -1

\* C7: the Projector's output has the length and order of its input, and
\* each detection keeps its score and its number of keypoints.
C7_ProjectorKeepsScores ==
    \A f \in Frames :
        Done(f, "detection_projection") =>
            LET in == nms_detections[f]
                out == detection_projection_out[f]
            IN  /\ Len(out) = Len(in)
                /\ \A i \in 1..Len(out) :
                      /\ out[i].score = in[i].score
                      /\ out[i].row = in[i].row
                      /\ Len(out[i].keypoints) = Len(in[i].keypoints)
                      /\ Len(out[i].keypoints) = 4

C7_Witness ==
    \E f \in Frames :
        /\ Done(f, "detection_projection")
        /\ Len(detection_projection_out[f]) = 2
        /\ Len(detections[f]) = 3
        /\ matrix[f].m01 # 0
        /\ detection_projection_out[f][1].box # nms_detections[f][1].box
        /\ detection_projection_out[f][1].keypoints # nms_detections[f][1].keypoints

\* the rect {cx = 0.5, cy = 0.5, w = 0.2, h = 0.1, rot = 0}
ExampleRect ==
    [x_center |-> One \div 2, y_center |-> One \div 2, width |-> One \div 5,
     height |-> One \div 10, rotation |-> 0]

AloneProjected(f) ==
    DetectionProjection(
        NonMaxSuppression(
            TensorsToDetections(AnchorTable, model_output_tensors[f], subgraph_options),
            subgraph_options),
        matrix[f])
AlonePoseDetections(f) ==
    IF subgraph_options.has_num_poses
    THEN ClipVectorSize(AloneProjected(f), subgraph_options.num_poses)
    ELSE AloneProjected(f)
AlonePoseRects(f) == DetectionsToRects(AlonePoseDetections(f), image_size[f])

FrameOutputsAsAlone ==
    \A f \in Frames :
        /\ Done(f, "detection_projection") =>
               detection_projection_out[f] = AloneProjected(f)
        /\ Done(f, "detection_transformation") =>
               pose_pixel_detections[f]
                   = DetectionTransformation(AloneProjected(f), image_size[f])
        /\ Done(f, "detections_to_rects") => pose_rects[f] = AlonePoseRects(f)
        /\ Done(f, "rect_transformation") =>
               expanded_pose_rects[f]
                   = RectTransformation(AlonePoseRects(f), image_size[f])

\* C9: however the nodes of several frames interleave, the anchors are
\* written once and never change afterwards, and every frame's detections
\* and rects are those of that frame processed alone.
C9_FramesIndependent ==
    /\ [][anchors # <<>> => anchors' = anchors]_vars
    /\ []FrameOutputsAsAlone

C9_Witness ==
    /\ anchors # <<>>
    /\ \A f \in Frames : Done(f, "rect_transformation")
    /\ Done(1, "detection_transformation") /\ ~Done(2, "detection_transformation")
    /\ model_output_tensors[1] # model_output_tensors[2]
    /\ expanded_pose_rects[1] # expanded_pose_rects[2]
    /\ Len(pose_rects[1]) # Len(pose_rects[2])

\* C10: EXPANDED_POSE_RECTS and POSE_RECTS have the same length: the number
\* of detections left after the Limiter, or 1 when none is left; the i-th
\* expanded rect comes from the i-th pose rect, which comes from the i-th
\* limited detection.
C10_RectCounts ==
    \A f \in Frames :
        Done(f, "rect_transformation") =>
            LET limited == pose_detections(f)
                rects == pose_rects[f]
                expanded == expanded_pose_rects[f]
            IN  /\ Len(expanded) = Len(rects)
                /\ Len(rects) = (IF Len(limited) >= 1 THEN Len(limited) ELSE 1)
                /\ \A i \in 1..Len(limited) :
                      /\ rects[i] = DetectionToRect(limited[i], image_size[f])
                      /\ rects[i].x_center = limited[i].box.x_center
                      /\ rects[i].y_center = limited[i].box.y_center
                /\ \A i \in 1..Len(rects) :
                      /\ expanded[i] = TransformRect(rects[i], image_size[f])
                      /\ expanded[i].rotation = rects[i].rotation

C10_Witness ==
    \E f \in Frames :
        /\ Done(f, "rect_transformation")
        /\ subgraph_options.has_num_poses
        /\ Len(detection_projection_out[f]) = 3
        /\ Len(pose_detections(f)) = 2
        /\ Len(expanded_pose_rects[f]) = 2
        /\ expanded_pose_rects[f][1] # expanded_pose_rects[f][2]

=============================================================================
